---- MODULE Spec2Model ----
(***************************************************************************)
(* Session-server layer of the codelldb adapter                            *)
(* (src/adapter/codelldb/src/lib.rs): debug_server, run_debug_session,     *)
(* hook_crashes and the reproducer controller, as a state machine.         *)
(*                                                                         *)
(* The unix build is modelled (#[cfg(unix)] hook_crashes, #[cfg(not(       *)
(* windows))] SBDebugger::terminate).  A fatal signal is taken on the      *)
(* thread that executes debug_server: while the handler runs, debug_server *)
(* makes no step; pump tasks, which run on the runtime's worker threads,   *)
(* go on.  A panic unwinds out of debug_server (Rust's default strategy).  *)
(***************************************************************************)
EXTENDS Naturals, Sequences, FiniteSets, TLC

VARIABLES
    pc,                  \* position of debug_server
    matches,             \* command-line options, as read at lines 78..86
    hookInstalls,        \* number of times hook_crashes installed the handler
    adapter_settings,    \* the settings snapshot (None until line 41 ran)
    CREATING_REPRODUCER, \* the process-wide atomic flag
    repro,               \* reproducer/engine call counters
    engine,              \* "none" | "initialized" | "created" | "terminated"
    python_interface,    \* None until line 70 ran, then Some(Option<handle>)
    rt,                  \* "none" | "running" | "shutdown"
    listener,            \* "none" | "bound"
    clients,             \* inbound clients: [arrived, pending, accepted]
    stream,              \* what was written to the current connection
    sessions,            \* one record per run_debug_session call
    block_result,        \* result of the async block given to rt.block_on
    failure,             \* which fallible call failed, "none" if none did
    result,              \* what debug_server ended with: "none"|"Ok"|"Err"|"Panic"
    hstack,              \* activations of the signal handler, innermost last
    stderr,              \* lines written to the diagnostic stream
    log,                 \* error!/info! lines
    exitCode             \* None, or Some(code) once std::process::exit ran

vars == <<pc, matches, hookInstalls, adapter_settings, CREATING_REPRODUCER,
          repro, engine, python_interface, rt, listener, clients, stream,
          sessions, block_result, failure, result, hstack,
          stderr, log, exitCode>>

----------------------------------------------------------------------------
(* Bounds of the model *)

MaxClients == 2
MaxFrames == 1

----------------------------------------------------------------------------
(* Option values *)

None == <<>>
Some(x) == <<x>>
IsSome(o) == o /= None
Unwrap(o) == o[1]

----------------------------------------------------------------------------
(* Inputs: the "settings" blob, the port options, the auth token *)

\* adapter_settings.reproducer: Option<Either<bool, String>>
First(b) == Some([first |-> TRUE, flag |-> b, path |-> ""])
Second(p) == Some([first |-> FALSE, flag |-> FALSE, path |-> p])
ReproducerValues == {None, First(TRUE), First(FALSE), Second("/tmp/repro")}

\* A settings text is well-formed JSON or it is not; either way it has content.
SettingsTexts ==
    [json : {TRUE}, reproducer : ReproducerValues]
        \cup [json : {FALSE}, reproducer : {First(TRUE)}]
SettingsArgs == {None} \cup {Some(t) : t \in SettingsTexts}

DefaultSettings == [reproducer |-> None]

\* serde_json::from_str::<AdapterSettings>
FromStr(t) ==
    IF t.json THEN [ok |-> TRUE, value |-> [reproducer |-> t.reproducer]]
    ELSE [ok |-> FALSE, value |-> DefaultSettings]

\* lines 41..50: the settings snapshot for a "settings" argument
ParseSettings(arg) ==
    IF IsSome(arg) THEN
        IF FromStr(Unwrap(arg)).ok THEN FromStr(Unwrap(arg)).value
        ELSE DefaultSettings
    ELSE DefaultSettings

SettingsError(arg) == IsSome(arg) /\ ~FromStr(Unwrap(arg)).ok

PortTexts == {"4711", "x"}
PortArgs == {None} \cup {Some(t) : t \in PortTexts}

\* str::parse::<u16>
ParsePort(t) ==
    CASE t = "4711" -> [ok |-> TRUE, value |-> 4711]
      [] OTHER -> [ok |-> FALSE, value |-> 0]

TokenArgs == {None, Some("abc123")}

SelectMode_PortFirst(connectArg, portArg) ==
    IF IsSome(portArg) THEN
        [ok |-> ParsePort(Unwrap(portArg)).ok, use_stdio |-> FALSE,
         port |-> ParsePort(Unwrap(portArg)).value, connect |-> FALSE]
    ELSE IF IsSome(connectArg) THEN
        [ok |-> ParsePort(Unwrap(connectArg)).ok, use_stdio |-> FALSE,
         port |-> ParsePort(Unwrap(connectArg)).value, connect |-> TRUE]
    ELSE [ok |-> TRUE, use_stdio |-> TRUE, port |-> 0, connect |-> FALSE]

\* lines 78..84: (use_stdio, port, connect), or the parse error of `?`
SelectMode(connectArg, portArg) ==
    IF IsSome(connectArg) THEN
        [ok |-> ParsePort(Unwrap(connectArg)).ok, use_stdio |-> FALSE,
         port |-> ParsePort(Unwrap(connectArg)).value, connect |-> TRUE]
    ELSE IF IsSome(portArg) THEN
        [ok |-> ParsePort(Unwrap(portArg)).ok, use_stdio |-> FALSE,
         port |-> ParsePort(Unwrap(portArg)).value, connect |-> FALSE]
    ELSE [ok |-> TRUE, use_stdio |-> TRUE, port |-> 0, connect |-> FALSE]

\* line 108
AuthHeader(token) == "Auth-Token: " \o token \o "\r\n"
\* what a failed write_all may leave on the stream: nothing, or a part
PartialWrites(token) == {<<>>, <<"Auth-Token: " \o token>>}

Frame == "Content-Length: 2\r\n\r\n{}"

\* lines 158..165
Signals == {"libc::SIGSEGV", "libc::SIGBUS", "libc::SIGILL", "libc::SIGFPE",
            "libc::SIGABRT"}
SigName(sig) ==
    CASE sig = "libc::SIGSEGV" -> "SIGSEGV"
      [] sig = "libc::SIGBUS" -> "SIGBUS"
      [] sig = "libc::SIGILL" -> "SIGILL"
      [] sig = "libc::SIGFPE" -> "SIGFPE"
      [] sig = "libc::SIGABRT" -> "SIGABRT"

CrashExitCode == 255

----------------------------------------------------------------------------
(* Initial state: the process has entered debug_server *)

NoMatches ==
    [read |-> FALSE, settings |-> None, connectArg |-> None, portArg |-> None,
     use_stdio |-> FALSE, port |-> 0, connect |-> FALSE,
     multi_session |-> FALSE, auth_token |-> None]

Init ==
    /\ pc = "hook_crashes"
    /\ matches = NoMatches
    /\ hookInstalls = 0
    /\ adapter_settings = None
    /\ CREATING_REPRODUCER = FALSE
    /\ repro = [capture |-> 0, dir |-> None, finalize |-> 0, normal |-> 0,
                path |-> 0, generate |-> 0, normalReport |-> "none"]
    /\ engine = "none"
    /\ python_interface = None
    /\ rt = "none"
    /\ listener = "none"
    /\ clients = [arrived |-> 0, pending |-> 0, accepted |-> 0]
    /\ stream = <<>>
    /\ sessions = <<>>
    /\ block_result = "pending"
    /\ failure = "none"
    /\ result = "none"
    /\ hstack = <<>>
    /\ stderr = <<>>
    /\ log = <<>>
    /\ exitCode = None

\* the process has not ended
Alive == result = "none" /\ exitCode = None
\* debug_server's thread is running debug_server, not the signal handler
Running == Alive /\ hstack = <<>>

----------------------------------------------------------------------------
(* debug_server: startup, lines 38..92 *)

HookCrashes_Skip ==
    /\ Running /\ pc = "hook_crashes"
    /\ pc' = "settings"
    /\ UNCHANGED <<matches, hookInstalls, adapter_settings,
                   CREATING_REPRODUCER, repro, engine, python_interface, rt,
                   listener, clients, stream, sessions, block_result,
                   failure, result, hstack, stderr, log, exitCode>>

\* line 39
HookCrashes ==
    /\ Running /\ pc = "hook_crashes"
    /\ hookInstalls' = hookInstalls + 1
    /\ pc' = "settings"
    /\ UNCHANGED <<matches, adapter_settings, CREATING_REPRODUCER, repro,
                   engine, python_interface, rt, listener, clients, stream,
                   sessions, block_result, failure, result, hstack, stderr,
                   log, exitCode>>

\* lines 41..50
LoadSettings(arg) ==
    /\ Running /\ pc = "settings"
    /\ matches' = [matches EXCEPT !.settings = arg]
    /\ adapter_settings' = Some(ParseSettings(arg))
    /\ log' = IF SettingsError(arg) THEN Append(log, "settings: parse error")
              ELSE log
    /\ pc' = "reproducer"
    /\ UNCHANGED <<hookInstalls, CREATING_REPRODUCER, repro, engine,
                   python_interface, rt, listener, clients, stream, sessions,
                   block_result, failure, result, hstack, stderr, exitCode>>

\* lines 52..56: whether initialize_reproducer is called, and with which path
ReproducerRequest(settings) ==
    IF settings.reproducer = First(TRUE) THEN Some(None)
    ELSE IF IsSome(settings.reproducer) /\ ~Unwrap(settings.reproducer).first
         THEN Some(Some(Unwrap(settings.reproducer).path))
    ELSE None

CaptureStore_Always(ok) == TRUE

\* line 189: the store made when SBReproducer::capture returned Ok
CaptureStore(ok) == IF ok THEN TRUE ELSE CREATING_REPRODUCER

\* lines 187..192, for the path given and the outcome of SBReproducer::capture
initialize_reproducer(path, ok) ==
    /\ CREATING_REPRODUCER' = CaptureStore(ok)
    /\ repro' = [repro EXCEPT !.capture = @ + 1,
                              !.dir = IF ok THEN Some(IF IsSome(path) THEN Unwrap(path)
                                                      ELSE "<default>")
                                      ELSE @]
    /\ log' = IF ok THEN log ELSE Append(log, "initialize_reproducer: error")

\* lines 52..56
InitReproducer(ok) ==
    /\ Running /\ pc = "reproducer"
    /\ IF IsSome(ReproducerRequest(Unwrap(adapter_settings)))
       THEN initialize_reproducer(Unwrap(ReproducerRequest(Unwrap(adapter_settings))), ok)
       ELSE ok /\ UNCHANGED <<CREATING_REPRODUCER, repro, log>>
    /\ pc' = "sb_initialize"
    /\ UNCHANGED <<matches, hookInstalls, adapter_settings, engine,
                   python_interface, rt, listener, clients, stream, sessions,
                   block_result, failure, result, hstack, stderr, exitCode>>

\* line 58
SBInitialize ==
    /\ Running /\ pc = "sb_initialize"
    /\ engine' = "initialized"
    /\ pc' = "sb_create"
    /\ UNCHANGED <<matches, hookInstalls, adapter_settings,
                   CREATING_REPRODUCER, repro, python_interface, rt,
                   listener, clients, stream, sessions, block_result,
                   failure, result, hstack, stderr, log, exitCode>>

\* lines 60..66: create the debugger; when CODELLDB_STARTUP is set, hand it to
\* the command interpreter, whose result is dropped
SBCreate ==
    /\ Running /\ pc = "sb_create"
    /\ engine' = "created"
    /\ pc' = "python"
    /\ UNCHANGED <<matches, hookInstalls, adapter_settings,
                   CREATING_REPRODUCER, repro, python_interface, rt,
                   listener, clients, stream, sessions, block_result,
                   failure, result, hstack, stderr, log, exitCode>>

\* lines 68..76
PythonInitialize(ok) ==
    /\ Running /\ pc = "python"
    /\ python_interface' = Some(IF ok THEN Some("python") ELSE None)
    /\ log' = IF ok THEN log ELSE Append(log, "Initialize Python interpreter: error")
    /\ pc' = "args"
    /\ UNCHANGED <<matches, hookInstalls, adapter_settings,
                   CREATING_REPRODUCER, repro, engine, rt, listener, clients,
                   stream, sessions, block_result, failure, result, hstack,
                   stderr, exitCode>>

\* lines 78..86
ParseArgs(connectArg, portArg, multi, token) ==
    /\ Running /\ pc = "args"
    /\ matches' = [matches EXCEPT
           !.read = TRUE, !.connectArg = connectArg, !.portArg = portArg,
           !.use_stdio = SelectMode(connectArg, portArg).use_stdio,
           !.port = SelectMode(connectArg, portArg).port,
           !.connect = SelectMode(connectArg, portArg).connect,
           !.multi_session = multi, !.auth_token = token]
    /\ SelectMode(connectArg, portArg).ok
    /\ pc' = "rt_build"
    /\ UNCHANGED <<hookInstalls, adapter_settings, CREATING_REPRODUCER,
                   repro, engine, python_interface, rt, listener, clients,
                   stream, sessions, block_result, failure, result, hstack,
                   stderr, log, exitCode>>

\* lines 79, 81: port.parse()? returns the error to the caller
ParseArgsFail(connectArg, portArg) ==
    /\ Running /\ pc = "args"
    /\ ~SelectMode(connectArg, portArg).ok
    /\ matches' = [matches EXCEPT
           !.connectArg = connectArg, !.portArg = portArg]
    /\ failure' = "parse"
    /\ result' = "Err"
    /\ pc' = "failed"
    /\ UNCHANGED <<hookInstalls, adapter_settings, CREATING_REPRODUCER,
                   repro, engine, python_interface, rt, listener, clients,
                   stream, sessions, block_result, hstack, stderr, log,
                   exitCode>>

\* lines 88..92
RtBuild ==
    /\ Running /\ pc = "rt_build"
    /\ rt' = "running"
    /\ pc' = "block_on"
    /\ UNCHANGED <<matches, hookInstalls, adapter_settings,
                   CREATING_REPRODUCER, repro, engine, python_interface,
                   listener, clients, stream, sessions, block_result,
                   failure, result, hstack, stderr, log, exitCode>>

----------------------------------------------------------------------------
(* debug_server: the async block given to rt.block_on, lines 94..126 *)

\* a `?` inside the async block: the block ends with Err
BlockFails(what) ==
    /\ block_result' = "Err"
    /\ failure' = what
    /\ pc' = "unwrap"

\* lines 95..98
StdioStart ==
    /\ Running /\ pc = "block_on"
    /\ matches.use_stdio
    /\ stream' = <<>>
    /\ pc' = "run_session"
    /\ UNCHANGED <<matches, hookInstalls, adapter_settings,
                   CREATING_REPRODUCER, repro, engine, python_interface, rt,
                   listener, clients, sessions, block_result, failure,
                   result, hstack, stderr, log, exitCode>>

\* line 105, Ok
Connect ==
    /\ Running /\ pc = "block_on"
    /\ ~matches.use_stdio /\ matches.connect
    /\ stream' = <<>>
    /\ pc' = "auth"
    /\ UNCHANGED <<matches, hookInstalls, adapter_settings,
                   CREATING_REPRODUCER, repro, engine, python_interface, rt,
                   listener, clients, sessions, block_result, failure,
                   result, hstack, stderr, log, exitCode>>

\* line 105, Err
ConnectFail ==
    /\ Running /\ pc = "block_on"
    /\ ~matches.use_stdio /\ matches.connect
    /\ BlockFails("connect")
    /\ UNCHANGED <<matches, hookInstalls, adapter_settings,
                   CREATING_REPRODUCER, repro, engine, python_interface, rt,
                   listener, clients, stream, sessions, result, hstack,
                   stderr, log, exitCode>>

AuthPreamble_Skip(token) == <<>>

\* lines 107..110: what is written before the stream is framed
AuthPreamble(token) == IF IsSome(token) THEN <<AuthHeader(Unwrap(token))>> ELSE <<>>

\* lines 106..111, write_all Ok (or no token)
SendAuthToken ==
    /\ Running /\ pc = "auth"
    /\ stream' = stream \o AuthPreamble(matches.auth_token)
    /\ pc' = "run_session"
    /\ UNCHANGED <<matches, hookInstalls, adapter_settings,
                   CREATING_REPRODUCER, repro, engine, python_interface, rt,
                   listener, clients, sessions, block_result, failure,
                   result, hstack, stderr, log, exitCode>>

\* line 109, Err
SendAuthTokenFail(part) ==
    /\ Running /\ pc = "auth"
    /\ IsSome(matches.auth_token)
    /\ part \in PartialWrites(Unwrap(matches.auth_token))
    /\ stream' = stream \o part
    /\ BlockFails("write")
    /\ UNCHANGED <<matches, hookInstalls, adapter_settings,
                   CREATING_REPRODUCER, repro, engine, python_interface, rt,
                   listener, clients, sessions, result, hstack, stderr, log,
                   exitCode>>

\* line 114, Ok
Bind ==
    /\ Running /\ pc = "block_on"
    /\ ~matches.use_stdio /\ ~matches.connect
    /\ listener' = "bound"
    /\ pc' = "local_addr"
    /\ UNCHANGED <<matches, hookInstalls, adapter_settings,
                   CREATING_REPRODUCER, repro, engine, python_interface, rt,
                   clients, stream, sessions, block_result, failure, result,
                   hstack, stderr, log, exitCode>>

\* line 114, Err
BindFail ==
    /\ Running /\ pc = "block_on"
    /\ ~matches.use_stdio /\ ~matches.connect
    /\ BlockFails("bind")
    /\ UNCHANGED <<matches, hookInstalls, adapter_settings,
                   CREATING_REPRODUCER, repro, engine, python_interface, rt,
                   listener, clients, stream, sessions, result, hstack,
                   stderr, log, exitCode>>

\* line 116, Ok
LocalAddr ==
    /\ Running /\ pc = "local_addr"
    /\ pc' = "accept"
    /\ UNCHANGED <<matches, hookInstalls, adapter_settings,
                   CREATING_REPRODUCER, repro, engine, python_interface, rt,
                   listener, clients, stream, sessions, block_result,
                   failure, result, hstack, stderr, log, exitCode>>

\* line 116, Err
LocalAddrFail ==
    /\ Running /\ pc = "local_addr"
    /\ BlockFails("local_addr")
    /\ UNCHANGED <<matches, hookInstalls, adapter_settings,
                   CREATING_REPRODUCER, repro, engine, python_interface, rt,
                   listener, clients, stream, sessions, result, hstack,
                   stderr, log, exitCode>>

\* a client connects to the listening socket
ClientConnects ==
    /\ Alive /\ listener = "bound"
    /\ clients.arrived < MaxClients
    /\ clients' = [clients EXCEPT !.arrived = @ + 1, !.pending = @ + 1]
    /\ UNCHANGED <<pc, matches, hookInstalls, adapter_settings,
                   CREATING_REPRODUCER, repro, engine, python_interface, rt,
                   listener, stream, sessions, block_result, failure, result,
                   hstack, stderr, log, exitCode>>

\* lines 117..119, Ok
Accept ==
    /\ Running /\ pc = "accept"
    /\ clients.pending > 0
    /\ clients' = [clients EXCEPT !.pending = @ - 1, !.accepted = @ + 1]
    /\ stream' = <<>>
    /\ pc' = "run_session"
    /\ UNCHANGED <<matches, hookInstalls, adapter_settings,
                   CREATING_REPRODUCER, repro, engine, python_interface, rt,
                   listener, sessions, block_result, failure, result, hstack,
                   stderr, log, exitCode>>

AcceptFail_Retries ==
    /\ Running /\ pc = "accept"
    /\ failure' = "accept"
    /\ pc' = "local_addr"
    /\ UNCHANGED <<matches, hookInstalls, adapter_settings,
                   CREATING_REPRODUCER, repro, engine, python_interface, rt,
                   listener, clients, stream, sessions, block_result, result,
                   hstack, stderr, log, exitCode>>

\* line 117, Err
AcceptFail ==
    /\ Running /\ pc = "accept"
    /\ BlockFails("accept")
    /\ UNCHANGED <<matches, hookInstalls, adapter_settings,
                   CREATING_REPRODUCER, repro, engine, python_interface, rt,
                   listener, clients, stream, sessions, result, hstack,
                   stderr, log, exitCode>>

----------------------------------------------------------------------------
(* run_debug_session, lines 138..153 *)

NewSession_DefaultSettings ==
    [fut |-> "pending", pump |-> "running",
     settings |-> DefaultSettings,
     python |-> Unwrap(python_interface)]

NewSession_NoPython ==
    [fut |-> "pending", pump |-> "running",
     settings |-> Unwrap(adapter_settings),
     python |-> None]

\* lines 144..149: the session the session-logic future is bound to
NewSession ==
    [fut |-> "pending", pump |-> "running",
     settings |-> Unwrap(adapter_settings),
     python |-> Unwrap(python_interface)]

\* lines 143..150: create the session, spawn the pump, start awaiting
RunDebugSession ==
    /\ Running /\ pc = "run_session"
    /\ sessions' = Append(sessions, NewSession)
    /\ pc' = "await_session"
    /\ UNCHANGED <<matches, hookInstalls, adapter_settings,
                   CREATING_REPRODUCER, repro, engine, python_interface, rt,
                   listener, clients, stream, block_result, failure, result,
                   hstack, stderr, log, exitCode>>

SessionOutcomes == {"completed", "ProtocolError", "ConnectionClosed"}

\* the session-logic future resolves, whatever its internal outcome
SessionLogicResolves(outcome) ==
    /\ Running /\ pc = "await_session"
    /\ sessions[Len(sessions)].fut = "pending"
    /\ sessions' = [sessions EXCEPT ![Len(sessions)].fut = outcome]
    /\ UNCHANGED <<pc, matches, hookInstalls, adapter_settings,
                   CREATING_REPRODUCER, repro, engine, python_interface, rt,
                   listener, clients, stream, block_result, failure, result,
                   hstack, stderr, log, exitCode>>

SessionFutAwaited_NoAwait == TRUE

\* line 151: session_fut.await completes once the future has resolved
SessionFutAwaited == sessions[Len(sessions)].fut \in SessionOutcomes

LoopContinues_Always == ~matches.use_stdio /\ ~matches.connect

LoopContinues_UnlessError ==
    /\ ~matches.use_stdio /\ ~matches.connect /\ matches.multi_session
    /\ sessions[Len(sessions)].fut = "completed"

\* lines 115..122: the `while { ...; multi_session } {}` condition
LoopContinues == ~matches.use_stdio /\ ~matches.connect /\ matches.multi_session

\* lines 151..152, then line 121 (listen) or line 125
AwaitSessionFut ==
    /\ Running /\ pc = "await_session"
    /\ SessionFutAwaited
    /\ sessions' = [sessions EXCEPT ![Len(sessions)].fut =
                        IF @ \in SessionOutcomes THEN "done" ELSE @]
    /\ IF LoopContinues
       THEN pc' = "local_addr" /\ UNCHANGED block_result
       ELSE pc' = "unwrap" /\ block_result' = "Ok"
    /\ UNCHANGED <<matches, hookInstalls, adapter_settings,
                   CREATING_REPRODUCER, repro, engine, python_interface, rt,
                   listener, clients, stream, failure, result, hstack,
                   stderr, log, exitCode>>

\* the pump forwards a frame of the running session to the wire
PumpWrite ==
    /\ Alive /\ sessions /= <<>>
    /\ sessions[Len(sessions)].pump = "running"
    /\ sessions[Len(sessions)].fut = "pending"
    /\ Len(SelectSeq(stream, LAMBDA x : x = Frame)) < MaxFrames
    /\ stream' = Append(stream, Frame)
    /\ UNCHANGED <<pc, matches, hookInstalls, adapter_settings,
                   CREATING_REPRODUCER, repro, engine, python_interface, rt,
                   listener, clients, sessions, block_result, failure,
                   result, hstack, stderr, log, exitCode>>

\* the pump task ends: its stream closed, or its session handle was dropped
PumpExit(i) ==
    /\ Alive /\ i \in 1..Len(sessions)
    /\ sessions[i].pump = "running"
    /\ sessions' = [sessions EXCEPT ![i].pump = "stopped"]
    /\ UNCHANGED <<pc, matches, hookInstalls, adapter_settings,
                   CREATING_REPRODUCER, repro, engine, python_interface, rt,
                   listener, clients, stream, block_result, failure, result,
                   hstack, stderr, log, exitCode>>

----------------------------------------------------------------------------
(* debug_server: shutdown, lines 127..136 *)

UnwrapPanics_Never == FALSE

\* line 127: what .unwrap() does with the block's result
UnwrapPanics == block_result = "Err"

\* line 127
UnwrapBlockResult ==
    /\ Running /\ pc = "unwrap"
    /\ IF UnwrapPanics
       THEN result' = "Panic" /\ pc' = "panicked"
       ELSE result' = result /\ pc' = "rt_shutdown"
    /\ UNCHANGED <<matches, hookInstalls, adapter_settings,
                   CREATING_REPRODUCER, repro, engine, python_interface, rt,
                   listener, clients, stream, sessions, block_result,
                   failure, hstack, stderr, log, exitCode>>

\* line 129: the tasks still on the runtime are cancelled
CancelTasks(ss) == [i \in 1..Len(ss) |-> [ss[i] EXCEPT !.pump = "stopped"]]

RtShutdown_SkipsFinalize ==
    /\ Running /\ pc = "rt_shutdown"
    /\ rt' = "shutdown"
    /\ sessions' = CancelTasks(sessions)
    /\ pc' = "terminate"
    /\ UNCHANGED <<matches, hookInstalls, adapter_settings,
                   CREATING_REPRODUCER, repro, engine, python_interface,
                   listener, clients, stream, block_result, failure, result,
                   hstack, stderr, log, exitCode>>

\* line 129
RtShutdown ==
    /\ Running /\ pc = "rt_shutdown"
    /\ rt' = "shutdown"
    /\ sessions' = CancelTasks(sessions)
    /\ pc' = "finalize"
    /\ UNCHANGED <<matches, hookInstalls, adapter_settings,
                   CREATING_REPRODUCER, repro, engine, python_interface,
                   listener, clients, stream, block_result, failure, result,
                   hstack, stderr, log, exitCode>>

----------------------------------------------------------------------------
(* Reproducer controller: finalize_reproducer, lines 194..204 *)

Capturing_Always == TRUE

\* line 195: the load that guards everything finalize_reproducer does
Capturing == CREATING_REPRODUCER

\* line 196: what SBReproducer::path() can answer
PathResults == IF IsSome(repro.dir) THEN {repro.dir, None} ELSE {None}

\* lines 195..196: whether finalize goes on to SBReproducer::generate
WillGenerate(p) == Capturing /\ IsSome(p)

\* lines 195..196, for the answer p of SBReproducer::path(); `normal` tells
\* the call of line 131 from the call of line 169
FinalizeEnter(normal) ==
    repro' = [repro EXCEPT !.finalize = @ + 1,
                           !.normal = @ + (IF normal THEN 1 ELSE 0),
                           !.path = @ + (IF Capturing THEN 1 ELSE 0)]

\* lines 197..201: what is logged for the answer of SBReproducer::generate()
GenerateReport(ok) == IF ok THEN "saved" ELSE "failed"
GenerateLog(ok) ==
    IF ok THEN "Reproducer saved to " \o Unwrap(repro.dir)
    ELSE "finalize_reproducer: failed"

\* lines 197..201
FinalizeGenerate(ok, normal) ==
    /\ repro' = [repro EXCEPT !.generate = @ + 1,
                              !.normalReport = IF normal THEN GenerateReport(ok)
                                               ELSE @]
    /\ log' = Append(log, GenerateLog(ok))

\* line 131, up to the call of SBReproducer::generate
FinalizeReproducer(p) ==
    /\ Running /\ pc = "finalize"
    /\ p \in PathResults
    /\ FinalizeEnter(TRUE)
    /\ pc' = IF WillGenerate(p) THEN "generate" ELSE "terminate"
    /\ UNCHANGED <<matches, hookInstalls, adapter_settings,
                   CREATING_REPRODUCER, engine, python_interface, rt,
                   listener, clients, stream, sessions, block_result,
                   failure, result, hstack, stderr, log, exitCode>>

\* line 131, the rest
GenerateReproducer(ok) ==
    /\ Running /\ pc = "generate"
    /\ FinalizeGenerate(ok, TRUE)
    /\ pc' = "terminate"
    /\ UNCHANGED <<matches, hookInstalls, adapter_settings,
                   CREATING_REPRODUCER, engine, python_interface, rt,
                   listener, clients, stream, sessions, block_result,
                   failure, result, hstack, stderr, exitCode>>

\* line 134
Terminate ==
    /\ Running /\ pc = "terminate"
    /\ engine' = "terminated"
    /\ pc' = "return"
    /\ UNCHANGED <<matches, hookInstalls, adapter_settings,
                   CREATING_REPRODUCER, repro, python_interface, rt,
                   listener, clients, stream, sessions, block_result,
                   failure, result, hstack, stderr, log, exitCode>>

\* line 135
ReturnOk ==
    /\ Running /\ pc = "return"
    /\ result' = "Ok"
    /\ pc' = "returned"
    /\ UNCHANGED <<matches, hookInstalls, adapter_settings,
                   CREATING_REPRODUCER, repro, engine, python_interface, rt,
                   listener, clients, stream, sessions, block_result,
                   failure, hstack, stderr, log, exitCode>>

----------------------------------------------------------------------------
(* Crash guard: hook_crashes::handler, lines 157..171 *)

Top == hstack[Len(hstack)]
SetTop(at) == [hstack EXCEPT ![Len(hstack)].at = at]
InHandler(at) == Alive /\ hstack /= <<>> /\ Top.at = at

\* lines 173..179: the handler is installed for these signals
Hooked == hookInstalls > 0

\* a fatal signal is delivered to debug_server's thread and the handler is
\* entered (deliveries to a thread already in the handler are not modelled)
Signal(sig) ==
    /\ Alive /\ Hooked
    /\ hstack = <<>>
    /\ hstack' = Append(hstack, [sig |-> sig, at |-> "report"])
    /\ UNCHANGED <<pc, matches, hookInstalls, adapter_settings,
                   CREATING_REPRODUCER, repro, engine, python_interface, rt,
                   listener, clients, stream, sessions, block_result,
                   failure, result, stderr, log, exitCode>>

\* lines 158..168
HandlerReport ==
    /\ InHandler("report")
    /\ stderr' = stderr \o <<"Received signal: " \o SigName(Top.sig), "backtrace">>
    /\ hstack' = SetTop("finalize")
    /\ UNCHANGED <<pc, matches, hookInstalls, adapter_settings,
                   CREATING_REPRODUCER, repro, engine, python_interface, rt,
                   listener, clients, stream, sessions, block_result,
                   failure, result, log, exitCode>>

\* line 169, up to the call of SBReproducer::generate
HandlerFinalize(p) ==
    /\ InHandler("finalize")
    /\ p \in PathResults
    /\ FinalizeEnter(FALSE)
    /\ hstack' = SetTop(IF WillGenerate(p) THEN "generate" ELSE "exit")
    /\ UNCHANGED <<pc, matches, hookInstalls, adapter_settings,
                   CREATING_REPRODUCER, engine, python_interface, rt,
                   listener, clients, stream, sessions, block_result,
                   failure, result, stderr, log, exitCode>>

\* line 169, the rest
HandlerGenerate(ok) ==
    /\ InHandler("generate")
    /\ FinalizeGenerate(ok, FALSE)
    /\ hstack' = SetTop("exit")
    /\ UNCHANGED <<pc, matches, hookInstalls, adapter_settings,
                   CREATING_REPRODUCER, engine, python_interface, rt,
                   listener, clients, stream, sessions, block_result,
                   failure, result, stderr, exitCode>>

ProcessExit_Returns ==
    /\ exitCode' = exitCode
    /\ hstack' = SubSeq(hstack, 1, Len(hstack) - 1)

\* line 170: std::process::exit with the crash code
ProcessExit ==
    /\ exitCode' = Some(CrashExitCode)
    /\ hstack' = SetTop("exited")

\* line 170
HandlerExit ==
    /\ InHandler("exit")
    /\ ProcessExit
    /\ UNCHANGED <<pc, matches, hookInstalls, adapter_settings,
                   CREATING_REPRODUCER, repro, engine, python_interface, rt,
                   listener, clients, stream, sessions, block_result,
                   failure, result, stderr, log>>

HandlerStep ==
    \/ HandlerReport
    \/ \E p \in PathResults : HandlerFinalize(p)
    \/ \E ok \in BOOLEAN : HandlerGenerate(ok)
    \/ HandlerExit

----------------------------------------------------------------------------
(* The specification *)

Next ==
    \/ HookCrashes
    \/ \E arg \in SettingsArgs : LoadSettings(arg)
    \/ \E ok \in BOOLEAN : InitReproducer(ok)
    \/ SBInitialize
    \/ SBCreate
    \/ \E ok \in BOOLEAN : PythonInitialize(ok)
    \/ \E c \in PortArgs, p \in PortArgs, m \in BOOLEAN, t \in TokenArgs :
           ParseArgs(c, p, m, t)
    \/ \E c \in PortArgs, p \in PortArgs : ParseArgsFail(c, p)
    \/ RtBuild
    \/ StdioStart
    \/ Connect
    \/ ConnectFail
    \/ SendAuthToken
    \/ \E part \in UNION {PartialWrites(Unwrap(t)) : t \in TokenArgs \ {None}} :
           SendAuthTokenFail(part)
    \/ Bind
    \/ BindFail
    \/ LocalAddr
    \/ LocalAddrFail
    \/ ClientConnects
    \/ Accept
    \/ AcceptFail
    \/ RunDebugSession
    \/ \E o \in SessionOutcomes : SessionLogicResolves(o)
    \/ AwaitSessionFut
    \/ PumpWrite
    \/ \E i \in 1..Len(sessions) : PumpExit(i)
    \/ UnwrapBlockResult
    \/ RtShutdown
    \/ \E p \in PathResults : FinalizeReproducer(p)
    \/ \E ok \in BOOLEAN : GenerateReproducer(ok)
    \/ Terminate
    \/ ReturnOk
    \/ \E sig \in Signals : Signal(sig)
    \/ HandlerStep

Spec == Init /\ [][Next]_vars

\* the handler, once entered, runs on: nothing in it waits for anything
FairSpec == Spec /\ WF_vars(HandlerStep)

\* lines 151..152 and 125..135: what debug_server does once the session it
\* awaits has resolved; none of these steps waits for a client or a session
ShutdownStep ==
    \/ AwaitSessionFut
    \/ UnwrapBlockResult
    \/ RtShutdown
    \/ \E p \in PathResults : FinalizeReproducer(p)
    \/ \E ok \in BOOLEAN : GenerateReproducer(ok)
    \/ Terminate
    \/ ReturnOk

\* debug_server's thread keeps running while it has such a step to take
ShutdownSpec == Spec /\ WF_vars(ShutdownStep)

----------------------------------------------------------------------------
(* Vocabulary of the properties *)

Listen == matches.read /\ ~matches.use_stdio /\ ~matches.connect
ConnectMode == matches.read /\ matches.connect
Stdio == matches.read /\ matches.use_stdio

\* sessions whose session-logic future has not resolved
AliveSessions == {i \in 1..Len(sessions) : sessions[i].fut = "pending"}
AllSessionsDone == \A i \in 1..Len(sessions) : sessions[i].fut = "done"

\* the listener loop is at (or about to reach) listener.accept()
AtAccept == pc \in {"local_addr", "accept"}
\* debug_server is past rt.block_on(..).unwrap() on the normal path
NormalShutdown == pc \in {"rt_shutdown", "finalize", "generate", "terminate",
                          "return", "returned"}
\* debug_server is past rt.shutdown_timeout
AfterRtShutdown == pc \in {"finalize", "generate", "terminate", "return",
                           "returned"}
\* debug_server is past finalize_reproducer on the normal path
AfterFinalize == pc \in {"terminate", "return", "returned"}

----------------------------------------------------------------------------
(* C1: in every reachable state at most one session is alive, and the
   listener is never at accept while a session is still running. *)
C1_AtMostOneSession ==
    /\ Cardinality(AliveSessions) <= 1
    /\ (AtAccept \/ pc = "run_session") => AliveSessions = {}

\* a second session is being served after the first one has finished
C1_Witness ==
    /\ Len(sessions) = 2
    /\ sessions[1].fut = "done"
    /\ sessions[2].fut = "pending"

(* C2: in listen mode every accepted connection gets exactly one session;
   without multi-session at most one connection is accepted and after its
   session the loop is left for the shutdown; with multi-session the loop
   never ends normally, is back at accept after each session, and once the
   backlog is empty every client that connected has been served. *)
C2_SerialExclusivity ==
    Listen =>
        /\ clients.accepted = Len(sessions) + (IF pc = "run_session" THEN 1 ELSE 0)
        /\ clients.accepted + clients.pending = clients.arrived
        /\ ~matches.multi_session =>
              /\ clients.accepted <= 1
              /\ (sessions /= <<>> /\ AllSessionsDone) => ~AtAccept
              /\ NormalShutdown => (Len(sessions) = 1 /\ AllSessionsDone)
        /\ matches.multi_session =>
              /\ ~NormalShutdown /\ block_result /= "Ok"
              /\ AtAccept => AllSessionsDone
              /\ (AtAccept /\ clients.pending = 0) => Len(sessions) = clients.arrived

\* two clients connected one after another and both were served
C2_Witness ==
    /\ Listen /\ matches.multi_session
    /\ pc = "accept" /\ clients.arrived = 2 /\ clients.pending = 0
    /\ Len(sessions) = 2 /\ AllSessionsDone

(* C3: no pump of a finished session is still running when the
   next connection has been accepted or when the layer terminates. *)
C3_PumpStoppedBeforeMovingOn ==
    \A i \in 1..Len(sessions) :
        (sessions[i].fut = "done" /\ (pc = "run_session" \/ AfterRtShutdown))
            => sessions[i].pump = "stopped"

(* C4: in connect mode with a token, once the session is started the stream
   begins with "Auth-Token: <token>\r\n", written exactly once, and all the
   rest are frames; before the session is started the stream holds no frame;
   in every other configuration nothing but frames is ever written. *)
C4_AuthPreamble ==
    /\ (ConnectMode /\ matches.auth_token = Some("abc123") /\ sessions /= <<>>) =>
          /\ stream /= <<>>
          /\ stream[1] = "Auth-Token: abc123\r\n"
          /\ \A k \in 2..Len(stream) : stream[k] = Frame
    /\ (ConnectMode /\ matches.auth_token = Some("abc123") /\ sessions = <<>>) =>
          /\ Len(stream) <= 1
          /\ \A k \in 1..Len(stream) : stream[k] /= Frame
    /\ ~(ConnectMode /\ IsSome(matches.auth_token)) =>
          \A k \in 1..Len(stream) : stream[k] = Frame

C4_Witness ==
    /\ ConnectMode /\ matches.auth_token = Some("abc123")
    /\ stream = <<"Auth-Token: abc123\r\n", Frame>>

(* C5: once a fatal signal is taken, the handler writes the signal's name
   and the stack trace to the diagnostic stream, then runs the reproducer
   finalization (which reaches generate only if the flag is set), then the
   process exits with code 255; from the delivery on debug_server makes no
   step (no runtime shutdown, no engine terminate), and the exit is always
   reached. *)
C5_ReportLine(sig) ==
    CASE sig = "libc::SIGSEGV" -> "Received signal: SIGSEGV"
      [] sig = "libc::SIGBUS" -> "Received signal: SIGBUS"
      [] sig = "libc::SIGILL" -> "Received signal: SIGILL"
      [] sig = "libc::SIGFPE" -> "Received signal: SIGFPE"
      [] sig = "libc::SIGABRT" -> "Received signal: SIGABRT"

C5_Order ==
    /\ hstack = <<>> => (stderr = <<>> /\ exitCode = None)
    /\ hstack /= <<>> =>
          /\ Top.at = "report" => stderr = <<>>
          /\ Top.at /= "report" => stderr = <<C5_ReportLine(Top.sig), "backtrace">>
          /\ Top.at \in {"report", "finalize"} => repro.finalize = repro.normal
          /\ Top.at = "generate" => CREATING_REPRODUCER
          /\ Top.at \in {"generate", "exit", "exited"} =>
                repro.finalize = repro.normal + 1
          /\ exitCode = (IF Top.at = "exited" THEN Some(255) ELSE None)

C5_NoCleanup ==
    hstack /= <<>> =>
        /\ hstack' /= <<>>
        /\ pc' = pc /\ rt' = rt /\ engine' = engine /\ result' = result

\* C5: the order of the handler's effects, no cleanup after the delivery,
\* and, the handler never being left, every delivery ends in the exit
C5_CrashGuard ==
    /\ []C5_Order
    /\ [][C5_NoCleanup]_vars
    /\ []<>(hstack = <<>> \/ exitCode = Some(255))

\* a signal taken while a session is served, with the reproducer generated
C5_Witness ==
    /\ exitCode = Some(255) /\ pc = "await_session"
    /\ repro.generate = 1 /\ rt = "running" /\ engine = "created"

(* C6: as long as the capturing flag is not set (initialize not called, or
   called and failed), no call of finalize_reproducer has queried the path,
   called generate or logged anything. *)
C6_FinalizeLogLines ==
    {"Reproducer saved to /tmp/repro", "Reproducer saved to <default>",
     "finalize_reproducer: failed"}

C6_FinalizeNoOp ==
    ~CREATING_REPRODUCER =>
        /\ repro.path = 0 /\ repro.generate = 0
        /\ \A k \in 1..Len(log) : log[k] \notin C6_FinalizeLogLines

\* capture failed; finalize ran on the normal path and again in the handler
C6_Witness ==
    /\ ~CREATING_REPRODUCER /\ repro.capture = 1
    /\ repro.normal = 1 /\ repro.finalize = 2 /\ exitCode = Some(255)

(* C7: with capture initialized, after finalize on the normal
   shutdown path it has run exactly once and reported success or failure. *)
C7_FinalizeAlwaysReports ==
    (CREATING_REPRODUCER /\ AfterFinalize /\ hstack = <<>>) =>
        /\ repro.normal = 1
        /\ repro.normalReport \in {"saved", "failed"}

(* C8: after a bind or connect failure no session is started
   and debug_server ends by returning an error value. *)
C8_TransportErrorReturned ==
    failure \in {"bind", "connect"} =>
        /\ sessions = <<>>
        /\ result /= "none" => result = "Err"

(* C9: debug_server returns Ok only after the complete normal shutdown with
   no failed call; the only exit code set is 255 and only the signal handler
   sets it; after an unparsable port, a bind, connect, write or accept
   failure the run never ends Ok, and without a signal it ends with an error
   return or a panic and never with code 255. *)
C9_ExitCodes ==
    /\ result = "Ok" =>
          /\ failure = "none" /\ block_result = "Ok" /\ exitCode = None
          /\ rt = "shutdown" /\ engine = "terminated" /\ repro.normal = 1
    /\ exitCode /= None =>
          /\ exitCode = Some(255)
          /\ hstack /= <<>> /\ Top.at = "exited"
    /\ failure /= "none" =>
          /\ result \in {"none", "Err", "Panic"}
          /\ ~NormalShutdown
          /\ hstack = <<>> => exitCode = None
          /\ (failure = "parse") <=> (result = "Err")
          /\ pc \in {"failed", "unwrap", "panicked"}
          /\ pc = "panicked" => result = "Panic"

C9_Witness ==
    /\ failure = "accept" /\ result = "Panic" /\ exitCode = None

(* C10, as claimed: in listen mode with multi-session a session that ended
   in an error leaves the loop running, and only a bind error ends it. *)
C10_Loop(fatal) ==
    (Listen /\ matches.multi_session) =>
        /\ block_result /= "Ok" /\ ~NormalShutdown
        /\ result /= "Ok"
        /\ failure /= "none" => failure \in fatal
        /\ (failure = "none" /\ sessions /= <<>> /\ AllSessionsDone) =>
              /\ pc \in {"local_addr", "accept", "run_session"}
              /\ listener = "bound" /\ result = "none"

C10_OnlyBindStopsLoop == C10_Loop({"bind"})

(* C10, amended: in listen mode with multi-session a session that ended in
   an error leaves the loop running: it goes to the next accept on the same
   listener and debug_server does not end; apart from a fatal signal, only a
   failed bind, local_addr or accept ends the loop. *)
C10_OnlyTransportErrorsStopLoop == C10_Loop({"bind", "local_addr", "accept"})

\* a session served in a later iteration of the loop has ended in an error
C10_Witness ==
    /\ Listen /\ matches.multi_session /\ listener = "bound"
    /\ Len(sessions) = 2 /\ sessions[1].fut = "done"
    /\ sessions[2].fut = "ProtocolError"

(* C11: once the options are read exactly one transport mode is selected:
   connect if a connect port is given, else listen if a port is given, else
   stdio, whatever the multi-session flag; stdio and connect never bind or
   accept, serve at most one session, and after that session the async block
   has ended and debug_server is on its way out, multi-session or not. *)
C11_ModeSelection ==
    matches.read =>
        /\ ConnectMode <=> IsSome(matches.connectArg)
        /\ Listen <=> (~IsSome(matches.connectArg) /\ IsSome(matches.portArg))
        /\ Stdio <=> (~IsSome(matches.connectArg) /\ ~IsSome(matches.portArg))
        /\ Cardinality({m \in {"connect", "listen", "stdio"} :
                           \/ m = "connect" /\ ConnectMode
                           \/ m = "listen" /\ Listen
                           \/ m = "stdio" /\ Stdio}) = 1
        /\ listener = "bound" => Listen
        /\ (Stdio \/ ConnectMode) =>
              /\ Len(sessions) <= 1
              /\ clients.accepted = 0 /\ ~AtAccept
              /\ (sessions /= <<>> /\ AllSessionsDone) =>
                    (block_result = "Ok" /\ pc \notin {"run_session", "await_session"})

\* both ports and multi-session given: connect was chosen, one session served
C11_Witness ==
    /\ ConnectMode /\ IsSome(matches.portArg) /\ matches.multi_session
    /\ Len(sessions) = 1 /\ result = "Ok"

(* C12: the crash handler is installed exactly once, as the first thing and
   before the engine is initialized; initialize_reproducer is called at most
   once and only while the engine is neither initialized nor created; a
   session is started only once the engine has been created. *)
C12_Order ==
    /\ hookInstalls <= 1
    /\ pc /= "hook_crashes" => hookInstalls = 1
    /\ engine /= "none" => hookInstalls = 1
    /\ repro.capture <= 1
    /\ (sessions /= <<>> \/ pc \in {"run_session", "await_session"}) =>
          engine \in {"created", "terminated"}
    /\ AliveSessions /= {} => engine = "created"

C12_Steps ==
    /\ hookInstalls' /= hookInstalls => (engine = "none" /\ engine' = "none")
    /\ repro'.capture /= repro.capture => (engine = "none" /\ engine' = "none")
    /\ Len(sessions') > Len(sessions) => engine = "created"

\* C12: the startup order, in every state and at every step
C12_StartupOrdering == []C12_Order /\ [][C12_Steps]_vars

\* a session is being served after the handler was installed and capture called
C12_Witness ==
    /\ hookInstalls = 1 /\ repro.capture = 1 /\ engine = "created"
    /\ AliveSessions /= {}

(* C13: the capturing flag starts false; it is written at most once, from
   false to true, by initialize_reproducer at startup and only when
   SBReproducer::capture succeeded; a failed capture leaves it false and
   startup goes on to initialize the engine; no other step, serving a
   session and finalize included, changes it. *)
C13_Flag ==
    /\ CREATING_REPRODUCER =>
          (repro.capture = 1 /\ IsSome(repro.dir) /\ pc /= "reproducer")
    /\ (repro.capture = 1 /\ ~IsSome(repro.dir)) =>
          /\ ~CREATING_REPRODUCER
          /\ \E k \in 1..Len(log) : log[k] = "initialize_reproducer: error"
    /\ pc \in {"hook_crashes", "settings", "reproducer"} => ~CREATING_REPRODUCER

C13_Writes ==
    /\ CREATING_REPRODUCER' /= CREATING_REPRODUCER =>
          /\ ~CREATING_REPRODUCER /\ CREATING_REPRODUCER'
          /\ pc = "reproducer" /\ hstack = <<>>
          /\ repro'.capture = repro.capture + 1 /\ IsSome(repro'.dir)
    /\ repro'.capture /= repro.capture =>
          (pc' = "sb_initialize" /\ result' = "none" /\ failure' = "none")
    /\ (sessions' /= sessions \/ repro'.finalize /= repro.finalize) =>
          CREATING_REPRODUCER' = CREATING_REPRODUCER

\* C13: the flag's initial value, its values and its writes
C13_CapturingFlag ==
    /\ ~CREATING_REPRODUCER
    /\ []C13_Flag
    /\ [][C13_Writes]_vars

\* capture succeeded, a session was served and finalize ran: the flag is set
C13_Witness ==
    /\ CREATING_REPRODUCER /\ sessions /= <<>> /\ repro.finalize = 1
    /\ repro.generate = 1

(* C14: the settings snapshot is written once, at startup, and never again;
   it is the parsed blob, or the default configuration when the blob is
   absent or malformed (the latter is logged and startup goes on); every
   session served, however many, got a snapshot equal to it. *)
C14_Expected ==
    IF IsSome(matches.settings) /\ Unwrap(matches.settings).json
    THEN [reproducer |-> Unwrap(matches.settings).reproducer]
    ELSE [reproducer |-> None]

C14_Malformed == IsSome(matches.settings) /\ ~Unwrap(matches.settings).json

C14_Snapshot ==
    /\ pc \notin {"hook_crashes", "settings"} <=> IsSome(adapter_settings)
    /\ IsSome(adapter_settings) =>
          /\ Unwrap(adapter_settings) = C14_Expected
          /\ C14_Malformed <=>
                (\E k \in 1..Len(log) : log[k] = "settings: parse error")
    /\ \A i \in 1..Len(sessions) :
          /\ IsSome(adapter_settings)
          /\ sessions[i].settings = Unwrap(adapter_settings)

C14_Frozen ==
    /\ adapter_settings' /= adapter_settings =>
          (adapter_settings = None /\ pc = "settings" /\ pc' = "reproducer")
    /\ \A i \in 1..Len(sessions) :
          (i <= Len(sessions') /\ sessions'[i].settings = sessions[i].settings)

\* C14: the snapshot and the copies the sessions got
C14_SettingsSnapshot == []C14_Snapshot /\ [][C14_Frozen]_vars

\* a malformed blob: two sessions were served with the default configuration
C14_Witness ==
    /\ C14_Malformed /\ Len(sessions) = 2 /\ AllSessionsDone
    /\ sessions[2].settings = DefaultSettings

(* C15: once the scripting subsystem was initialized, its outcome is fixed:
   on failure an error is logged, startup goes on and every session served
   runs without a scripting handle; on success every session served got the
   same handle. *)
C15_Handle ==
    /\ pc \in {"hook_crashes", "settings", "reproducer", "sb_initialize",
                "sb_create", "python"} <=> python_interface = None
    /\ IsSome(python_interface) =>
          /\ Unwrap(python_interface) \in {None, Some("python")}
          /\ Unwrap(python_interface) = None <=>
                (\E k \in 1..Len(log) :
                     log[k] = "Initialize Python interpreter: error")
    /\ \A i \in 1..Len(sessions) :
          /\ IsSome(python_interface)
          /\ sessions[i].python = Unwrap(python_interface)

C15_Fixed ==
    /\ python_interface' /= python_interface =>
          (python_interface = None /\ pc = "python" /\ pc' = "args"
           /\ result' = "none")
    /\ \A i \in 1..Len(sessions) :
          (i <= Len(sessions') /\ sessions'[i].python = sessions[i].python)

\* C15: the scripting handle and the handles the sessions got
C15_ScriptingHandle == []C15_Handle /\ [][C15_Fixed]_vars

\* initialization failed: two sessions were served without a handle
C15_Witness ==
    /\ python_interface = Some(None)
    /\ Len(sessions) = 2 /\ AllSessionsDone
    /\ sessions[1].python = None /\ sessions[2].python = None

(* C16: in listen mode, with or without multi-session, a failed accept ends
   the listener loop: from the failure on debug_server is never again at
   local_addr/accept nor in a session, no further connection is accepted and
   no further session is started. *)
C16_LoopPositions == {"local_addr", "accept", "run_session", "await_session"}

C16_Stopped ==
    failure = "accept" =>
        /\ Listen /\ block_result = "Err"
        /\ pc \notin C16_LoopPositions
        /\ AliveSessions = {}
        /\ Len(sessions) = clients.accepted

C16_NoMore ==
    /\ (failure /= "accept" /\ failure' = "accept") =>
          (pc = "accept" /\ sessions' = sessions /\ clients' = clients)
    /\ failure = "accept" =>
          /\ failure' = "accept"
          /\ pc' \notin C16_LoopPositions
          /\ clients'.accepted = clients.accepted
          /\ Len(sessions') = Len(sessions)

\* C16: after a failed accept the loop is over
C16_AcceptFailureStopsLoop == []C16_Stopped /\ [][C16_NoMore]_vars

\* multi-session: accept failed after one session, a waiting client is left
C16_Witness ==
    /\ failure = "accept" /\ matches.multi_session
    /\ Len(sessions) = 1 /\ clients.pending = 1
    /\ pc = "panicked"

(* C17: SBReproducer::generate is called at most once in the life of the
   process, also when a fatal signal arrives during or after the finalize of
   the normal shutdown path. *)
C17_GenerateAtMostOnce == repro.generate <= 1

(* C18: when capture was initialized and the process has ended (debug_server
   returned or panicked, or the handler exited), finalize_reproducer has
   been called at least once. *)
C18_FinalizeBeforeEnd ==
    (CREATING_REPRODUCER /\ (result /= "none" \/ exitCode /= None)) =>
        repro.finalize >= 1

(* C19: on the normal shutdown path the runtime is shut down only when every
   session has completed, finalize runs only after the runtime was shut
   down, and the engine is terminated only after finalize has returned and
   never with a session alive; and once every served session has completed
   (in listen mode: without multi-session) debug_server goes on to
   terminate the engine, unless a fatal signal takes the process away. *)
C19_Order ==
    /\ rt = "shutdown" =>
          /\ block_result = "Ok" /\ failure = "none"
          /\ sessions /= <<>> /\ AllSessionsDone
    /\ repro.normal >= 1 => rt = "shutdown"
    /\ pc = "generate" => (repro.normal = 1 /\ engine = "created")
    /\ engine = "terminated" =>
          /\ rt = "shutdown" /\ repro.normal = 1
          /\ AliveSessions = {}
          /\ pc \in {"return", "returned"}

C19_Steps ==
    /\ (rt /= "shutdown" /\ rt' = "shutdown") =>
          (AllSessionsDone /\ repro.normal = 0 /\ engine = "created")
    /\ repro'.normal /= repro.normal =>
          (rt = "shutdown" /\ engine = "created" /\ engine' = "created")
    /\ (engine /= "terminated" /\ engine' = "terminated") =>
          /\ pc = "terminate" /\ rt = "shutdown" /\ repro.normal = 1
          /\ AliveSessions = {}

\* every served session has completed and the mode serves no further one
C19_Completed ==
    /\ sessions /= <<>>
    /\ \A i \in 1..Len(sessions) : sessions[i].fut \in SessionOutcomes \cup {"done"}
    /\ ~(Listen /\ matches.multi_session)

\* C19: the order of the normal shutdown, and that it is gone through
C19_ShutdownOrder ==
    /\ []C19_Order
    /\ [][C19_Steps]_vars
    /\ []<>(~C19_Completed \/ engine = "terminated" \/ hstack /= <<>>)

\* listen mode without multi-session: served one client, shut down, returned
C19_Witness ==
    /\ Listen /\ ~matches.multi_session /\ result = "Ok"
    /\ engine = "terminated" /\ rt = "shutdown" /\ repro.generate = 1

====
